---- MODULE Spec2Model ----
(***************************************************************************)
(* Model of src/src/client.rs: the coordinator (main), the tunnel child    *)
(* supervisor task (run_ssh), the Ctrl-C handler, the listener pool        *)
(* (run_client) with its accept loops, and the per-connection forwarder    *)
(* with its splice loop.                                                   *)
(*                                                                         *)
(* Spec        the coordination plane: main, supervisor, handler, pool,    *)
(*             forwarders as tasks (their splice loop by its flags).       *)
(* SpecSplice  one forwarder's splice loop, byte by byte.                  *)
(***************************************************************************)
EXTENDS Integers, Sequences, FiniteSets, TLC

\* ---------------------------------------------------------------- bounds
NSetup == 2          \* commands in the setup sequence
NRestore == 2        \* commands in the restore sequence
MaxConns == 2        \* connections accepted over a run
BufLen == 2          \* length of local_buf / remote_buf (1024 in the source)
MaxLen == 2          \* bytes a peer sends on one connection

\* config.listen by the address family of each address
ListenConfigs == {<<"V4">>, <<"V6">>, <<"V4", "V6">>}
\* byte values on the wire; 0 is the buffers' initial fill ([0; 1024])
Bytes == {1, 2}
Min(a, b) == IF a < b THEN a ELSE b

SeqsUpTo(S, n) == UNION {[1..k -> S] : k \in 0..n}

VARIABLES
  \* configuration
  listen,            \* config.listen: the address family of each listen address
  \* main
  mainPc,            \* position of main
  mainResult,        \* "none" while running, "Ok", or the kind of ClientError returned
  selected,          \* branch main's select! completed with
  \* firewall command sequences
  setupExecuted,     \* setup commands executed successfully
  setupResult,       \* result of start_firewall's commands.run_all()
  restoreRan,        \* shutdown_commands.run_all() was invoked
  restoreExecuted,   \* restore commands executed successfully
  restoreResult,     \* result of shutdown_commands.run_all()
  \* tunnel supervisor task, child, control channel
  sshPc,             \* position of the spawned task of run_ssh
  sshPath,           \* the way the task ended
  sshResult,         \* what the JoinHandle yields: "Ok", "Err" (io::Error), "Panic" (JoinError)
  child,             \* the ssh child process
  chan,              \* Shutdown tokens queued in the capacity-1 channel
  handlerInstalled,  \* ctrlc::set_handler succeeded
  hPc,               \* the Ctrl-C handler thread
  tokenEnqueued,     \* the handler has enqueued a token
  mainSent,          \* main's ssh_tx.send enqueued a token
  \* listener pool
  clientPc,          \* position of the run_client future
  bound,             \* listen addresses bound so far
  accPc,             \* accept loop task per listen address
  fwd,               \* forwarder tasks, in accept order
  \* one forwarder's splice loop in detail
  spPc, local_buf, remote_buf, shutdown_local, shutdown_remote,
  localSrc, remoteSrc,       \* bytes each peer has still to send
  localErr, remoteErr,       \* the socket's read side has failed
  localRead, remoteRead,     \* bytes read from each socket so far
  localOut, remoteOut,       \* bytes written to each socket so far
  localWrClosed, remoteWrClosed,  \* write half shut down
  localEofSeen, remoteEofSeen,    \* a read returned Ok(0)
  localErrSeen, remoteErrSeen,    \* a read returned Err
  \* one forwarder's original-destination recovery in detail
  odPc,              \* position of the forwarder before its splice loop
  odEndian,          \* byte order of the host: "LE" or "BE"
  odListenFam,       \* family of the listen address the socket was accepted on
  odDst,             \* the kernel's original destination: [ip: bytes, port: 0..65535]
  odQuery,           \* socket option queried
  odSockaddr,        \* the sockaddr getsockopt returned, fields as native integers
  odTarget           \* (addr, port) handed to Socks5Stream::connect

coordVars == <<listen, mainPc, mainResult, selected, setupExecuted, setupResult,
               restoreRan, restoreExecuted, restoreResult, sshPc, sshPath, sshResult,
               child, chan, handlerInstalled, hPc, tokenEnqueued, mainSent,
               clientPc, bound, accPc, fwd>>

spliceVars == <<spPc, local_buf, remote_buf, shutdown_local, shutdown_remote,
                localSrc, remoteSrc, localErr, remoteErr, localRead, remoteRead,
                localOut, remoteOut, localWrClosed, remoteWrClosed,
                localEofSeen, remoteEofSeen, localErrSeen, remoteErrSeen>>

odVars == <<odPc, odEndian, odListenFam, odDst, odQuery, odSockaddr, odTarget>>

vars == <<coordVars, spliceVars, odVars>>

mainVars == <<mainPc, mainResult, selected>>
fwVars == <<setupExecuted, setupResult, restoreRan, restoreExecuted, restoreResult>>
sshVars == <<sshPc, sshPath, sshResult>>
sigVars == <<handlerInstalled, hPc, tokenEnqueued>>
poolVars == <<clientPc, bound, accPc, fwd>>

\* ------------------------------------------------------------ initial state
SpliceIdle ==
  /\ spPc = "idle"
  /\ local_buf = [i \in 1..BufLen |-> 0]
  /\ remote_buf = [i \in 1..BufLen |-> 0]
  /\ shutdown_local = FALSE /\ shutdown_remote = FALSE
  /\ localSrc = <<>> /\ remoteSrc = <<>>
  /\ localErr = FALSE /\ remoteErr = FALSE
  /\ localRead = <<>> /\ remoteRead = <<>>
  /\ localOut = <<>> /\ remoteOut = <<>>
  /\ localWrClosed = FALSE /\ remoteWrClosed = FALSE
  /\ localEofSeen = FALSE /\ remoteEofSeen = FALSE
  /\ localErrSeen = FALSE /\ remoteErrSeen = FALSE

OdIdle ==
  /\ odPc = "idle" /\ odEndian = "LE" /\ odListenFam = "V4"
  /\ odDst = [ip |-> <<>>, port |-> 0]
  /\ odQuery = "none" /\ odSockaddr = <<>> /\ odTarget = <<>>

Init ==
  /\ listen \in ListenConfigs
  /\ mainPc = "start_firewall" /\ mainResult = "none" /\ selected = "none"
  /\ setupExecuted = 0 /\ setupResult = "none"
  /\ restoreRan = FALSE /\ restoreExecuted = 0 /\ restoreResult = "none"
  /\ sshPc = "not_spawned" /\ sshPath = "none" /\ sshResult = "none"
  /\ child = "none" /\ chan = 0
  /\ handlerInstalled = FALSE /\ hPc = "idle"
  /\ tokenEnqueued = FALSE /\ mainSent = FALSE
  /\ clientPc = "not_created" /\ bound = 0
  /\ accPc = [i \in 1..Len(listen) |-> "none"]
  /\ fwd = <<>>
  /\ SpliceIdle
  /\ OdIdle

\* The process runs until main returns; its caller then exits.
Running == mainPc # "returned"

\* The receiver half rx lives in the supervisor task's future: from
\* mpsc::channel(1) until the task ends.
RxAlive == sshPc \in {"spawn_child", "set_handler", "select", "kill"}

\* -------------------------------------------------------------------- main
\* Commands::run_all: the commands run in order; the first that fails ends the
\* sequence with an error. k is the number of commands that succeed.
RunAllResult(k, n) == IF k = n THEN "Ok" ELSE "Err"

\* main line 133, start_firewall: plan setup and restore, run the setup commands.
\* Every failure leaves main through `?`.
StartFirewall(planOk, k) ==
  /\ mainPc = "start_firewall"
  /\ IF ~planOk
       THEN /\ mainPc' = "returned" /\ mainResult' = "FirewallError"
            /\ UNCHANGED <<setupExecuted, setupResult>>
       ELSE /\ setupExecuted' = k
            /\ setupResult' = RunAllResult(k, NSetup)
            /\ IF RunAllResult(k, NSetup) = "Ok"
                 THEN mainPc' = "run_ssh" /\ mainResult' = "none"
                 ELSE mainPc' = "returned" /\ mainResult' = "CommandError"
  /\ UNCHANGED <<listen, selected, restoreRan, restoreExecuted, restoreResult,
                 sshVars, child, chan, sigVars, mainSent, poolVars, spliceVars, odVars>>

\* main line 137, run_ssh: create the channel, spawn the supervisor task, return
\* Ok((tx, handle)); line 141 creates the (not yet polled) run_client future.
RunSsh ==
  /\ mainPc = "run_ssh"
  /\ mainPc' = "select"
  /\ sshPc' = "spawn_child"
  /\ chan' = 0
  /\ clientPc' = "bind"
  /\ UNCHANGED <<listen, mainResult, selected, fwVars, sshPath, sshResult, child,
                 sigVars, mainSent, bound, accPc, fwd, spliceVars, odVars>>

\* A join that drops the task's error.
JoinResult_SwallowsError(r) == "Ok"

\* res?? on the supervisor's JoinHandle output.
JoinResult(r) == CASE r = "Ok" -> "Ok"
                   [] r = "Err" -> "std::io::Error"
                   [] OTHER -> "JoinError"

\* main lines 153-157: the select! completes with the supervisor task.
MainSelectSsh ==
  /\ mainPc = "select"
  /\ sshPc = "done"
  /\ selected' = "ssh"
  /\ IF JoinResult(sshResult) = "Ok"
       THEN mainPc' = "send" /\ mainResult' = "none"
       ELSE mainPc' = "returned" /\ mainResult' = JoinResult(sshResult)
  /\ UNCHANGED <<listen, fwVars, sshVars, child, chan, sigVars, mainSent,
                 poolVars, spliceVars, odVars>>

\* main line 172: _ = ssh_tx.send(Message::Shutdown).await. The send fails at
\* once when the receiver is gone, and waits while the channel is full.
MainSend ==
  /\ mainPc = "send"
  /\ \/ ~RxAlive /\ UNCHANGED <<chan, mainSent>>
     \/ RxAlive /\ chan = 0 /\ chan' = 1 /\ mainSent' = TRUE
  /\ mainPc' = "restore"
  /\ UNCHANGED <<listen, mainResult, selected, fwVars, sshVars, child, sigVars,
                 poolVars, spliceVars, odVars>>

\* main lines 176-180: shutdown_commands.run_all().await?; Ok(())
MainRestore(k) ==
  /\ mainPc = "restore"
  /\ restoreRan' = TRUE
  /\ restoreExecuted' = k
  /\ restoreResult' = RunAllResult(k, NRestore)
  /\ mainPc' = "returned"
  /\ mainResult' = IF RunAllResult(k, NRestore) = "Ok" THEN "Ok" ELSE "CommandError"
  /\ UNCHANGED <<listen, selected, setupExecuted, setupResult, sshVars, child, chan,
                 sigVars, mainSent, poolVars, spliceVars, odVars>>

\* ------------------------------------------------ tunnel supervisor task
SshEnd(path, result) ==
  /\ sshPc' = "done" /\ sshPath' = path /\ sshResult' = result

\* line 229: Command::new("ssh").args(args).spawn()?
SshSpawnChild(ok) ==
  /\ Running /\ sshPc = "spawn_child"
  /\ IF ok
       THEN child' = "running" /\ sshPc' = "set_handler"
            /\ UNCHANGED <<sshPath, sshResult>>
       ELSE SshEnd("spawn_failed", "Err") /\ UNCHANGED child
  /\ UNCHANGED <<listen, mainVars, fwVars, chan, sigVars, mainSent, poolVars,
                 spliceVars, odVars>>

\* lines 231-236: ctrlc::set_handler(...).expect(...)
SshSetHandler(ok) ==
  /\ Running /\ sshPc = "set_handler"
  /\ IF ok
       THEN handlerInstalled' = TRUE /\ sshPc' = "select"
            /\ UNCHANGED <<sshPath, sshResult>>
       ELSE SshEnd("handler_failed", "Panic") /\ UNCHANGED handlerInstalled
  /\ UNCHANGED <<listen, mainVars, fwVars, child, chan, hPc, tokenEnqueued,
                 mainSent, poolVars, spliceVars, odVars>>

\* The child process ends by itself with exit status rc.
ChildExit(rc) ==
  /\ Running /\ child = "running"
  /\ child' = rc
  /\ UNCHANGED <<listen, mainVars, fwVars, sshVars, chan, sigVars, mainSent,
                 poolVars, spliceVars, odVars>>

\* lines 239-240: the select! completes with msg = rx.recv().
SshSelectRecv ==
  /\ Running /\ sshPc = "select"
  /\ chan = 1
  /\ chan' = 0
  /\ sshPc' = "kill"
  /\ UNCHANGED <<listen, mainVars, fwVars, sshPath, sshResult, child, sigVars,
                 mainSent, poolVars, spliceVars, odVars>>

\* A supervisor that reports the killed child's exit status.
KillResult_ReportsStatus(killOk, status) ==
  IF killOk /\ status # "exit_failure" THEN "Ok" ELSE "Err"

\* lines 241-242: child.kill().await?; Ok(())
KillResult(killOk, status) == IF killOk THEN "Ok" ELSE "Err"

SshKill(killOk) ==
  /\ Running /\ sshPc = "kill"
  /\ SshEnd(IF killOk THEN "killed" ELSE "kill_failed", KillResult(killOk, child))
  /\ child' = IF killOk /\ child = "running" THEN "killed" ELSE child
  /\ UNCHANGED <<listen, mainVars, fwVars, chan, sigVars, mainSent, poolVars,
                 spliceVars, odVars>>

\* A supervisor that does not test rc.success().
WaitResult_IgnoresStatus(waitOk, status) == IF waitOk THEN "Ok" ELSE "Err"

\* lines 245-259: the match on the result of child.wait().
WaitResult(waitOk, status) ==
  IF waitOk THEN (IF status = "exit_success" THEN "Ok" ELSE "Err") ELSE "Err"

\* lines 244-260: the select! completes with status = child.wait().
SshSelectWait(waitOk) ==
  /\ Running /\ sshPc = "select"
  /\ child \in {"exit_success", "exit_failure"}
  /\ SshEnd(IF waitOk THEN child ELSE "wait_failed", WaitResult(waitOk, child))
  /\ UNCHANGED <<listen, mainVars, fwVars, child, chan, sigVars, mainSent,
                 poolVars, spliceVars, odVars>>

\* --------------------------------------------------------- Ctrl-C handler
\* lines 231-235: tx_clone.blocking_send(Message::Shutdown).expect(...), run by
\* the handler thread for each signal. A closed channel makes blocking_send
\* return Err and expect panic; a full channel makes it wait.
HandlerSend ==
  IF ~RxAlive
    THEN hPc' = "panicked" /\ UNCHANGED <<chan, tokenEnqueued>>
    ELSE IF chan = 0
      THEN hPc' = "idle" /\ chan' = 1 /\ tokenEnqueued' = TRUE
      ELSE hPc' = "blocked" /\ UNCHANGED <<chan, tokenEnqueued>>

Interrupt ==
  /\ Running /\ handlerInstalled /\ hPc = "idle"
  /\ HandlerSend
  /\ UNCHANGED <<listen, mainVars, fwVars, sshVars, child, handlerInstalled,
                 mainSent, poolVars, spliceVars, odVars>>

\* The blocked blocking_send is woken by a free slot or by the channel closing.
HandlerWake ==
  /\ Running /\ hPc = "blocked"
  /\ (~RxAlive \/ chan = 0)
  /\ HandlerSend
  /\ UNCHANGED <<listen, mainVars, fwVars, sshVars, child, handlerInstalled,
                 mainSent, poolVars, spliceVars, odVars>>

\* A bind failure that falls through to the code after the select!.
RunClientBind_FallsThrough(ok) ==
  /\ mainPc = "select" /\ clientPc = "bind"
  /\ bound < Len(listen)
  /\ IF ok
       THEN /\ bound' = bound + 1
            /\ accPc' = [accPc EXCEPT ![bound + 1] = "accepting"]
            /\ clientPc' = IF bound + 1 = Len(listen) THEN "sleep" ELSE "bind"
            /\ UNCHANGED mainVars
       ELSE /\ clientPc' = "err"
            /\ selected' = "client"
            /\ mainPc' = "send" /\ mainResult' = "none"
            /\ UNCHANGED <<bound, accPc>>
  /\ UNCHANGED <<listen, fwVars, sshVars, child, chan, sigVars, mainSent, fwd,
                 spliceVars, odVars>>

\* ----------------------------------------------------------- listener pool
\* run_client lines 343-347, polled by main's select!: bind the next listen
\* address and spawn its accept loop. A bind error leaves run_client through `?`,
\* and main's select! completes with it: lines 158-160, res? returns the error.
RunClientBind(ok) ==
  /\ mainPc = "select" /\ clientPc = "bind"
  /\ bound < Len(listen)
  /\ IF ok
       THEN /\ bound' = bound + 1
            /\ accPc' = [accPc EXCEPT ![bound + 1] = "accepting"]
            /\ clientPc' = IF bound + 1 = Len(listen) THEN "sleep" ELSE "bind"
            /\ UNCHANGED mainVars
       ELSE /\ clientPc' = "err"
            /\ selected' = "client"
            /\ mainPc' = "returned" /\ mainResult' = "std::io::Error"
            /\ UNCHANGED <<bound, accPc>>
  /\ UNCHANGED <<listen, fwVars, sshVars, child, chan, sigVars, mainSent, fwd,
                 spliceVars, odVars>>

\* lines 348-351: listener.accept().await.unwrap(), socket.peer_addr().unwrap(),
\* then spawn the forwarder. An error panics the accept loop's task.
Accept(i, ok) ==
  /\ Running /\ accPc[i] = "accepting"
  /\ IF ok
       THEN /\ Len(fwd) < MaxConns
            /\ fwd' = Append(fwd, "origdst")
            /\ UNCHANGED accPc
       ELSE /\ accPc' = [accPc EXCEPT ![i] = "panicked"]
            /\ UNCHANGED fwd
  /\ UNCHANGED <<listen, mainVars, fwVars, sshVars, child, chan, sigVars, mainSent,
                 clientPc, bound, spliceVars, odVars>>

FwdUnchanged ==
  UNCHANGED <<listen, mainVars, fwVars, sshVars, child, chan, sigVars, mainSent,
              clientPc, bound, accPc, spliceVars, odVars>>

\* lines 373-400: getsockopt(...).unwrap() panics the forwarder's task on an error.
FwdOrigDst(c, ok) ==
  /\ Running /\ c \in DOMAIN fwd /\ fwd[c] = "origdst"
  /\ fwd' = [fwd EXCEPT ![c] = IF ok THEN "connect" ELSE "panicked"]
  /\ FwdUnchanged

\* A forwarder whose connect error is returned up to main instead of ending
\* its own task.
FwdConnect_Bubbles(c, ok) ==
  /\ Running /\ c \in DOMAIN fwd /\ fwd[c] = "connect"
  /\ fwd' = [fwd EXCEPT ![c] = IF ok THEN "splice" ELSE "panicked"]
  /\ IF ok THEN UNCHANGED mainVars
           ELSE mainPc' = "returned" /\ mainResult' = "std::io::Error"
                /\ UNCHANGED selected
  /\ UNCHANGED <<listen, fwVars, sshVars, child, chan, sigVars, mainSent,
                 clientPc, bound, accPc, spliceVars, odVars>>

\* lines 408-410: Socks5Stream::connect(...).await.unwrap()
FwdConnect(c, ok) ==
  /\ Running /\ c \in DOMAIN fwd /\ fwd[c] = "connect"
  /\ fwd' = [fwd EXCEPT ![c] = IF ok THEN "splice" ELSE "panicked"]
  /\ FwdUnchanged

\* lines 416-462: the splice loop ends by its break at line 460, or by the panic
\* of an unwrap() on a write or shutdown error.
FwdSpliceEnd(c, ok) ==
  /\ Running /\ c \in DOMAIN fwd /\ fwd[c] = "splice"
  /\ fwd' = [fwd EXCEPT ![c] = IF ok THEN "done" ELSE "panicked"]
  /\ FwdUnchanged

\* line 459: if shutdown_local && shutdown_remote { break }
LoopEnd(sl, sr) == IF sl /\ sr THEN "done" ELSE "loop"

\* ------------------------------------------------------------ splice loop
FirstN(s, n) == SubSeq(s, 1, n)
Drop(s, n) == SubSeq(s, n + 1, Len(s))

\* read(&mut buf) of n bytes overwrites buf[..n]
ReadInto(buf, src, n) == [i \in 1..BufLen |-> IF i <= n THEN src[i] ELSE buf[i]]

\* line 427: remote.write_all(&local_buf[..n])
LocalArmWritten(lbuf, rbuf, n) == [i \in 1..n |-> lbuf[i]]

\* line 445: local.write_all(&local_buf[..n])
RemoteArmWritten(lbuf, rbuf, n) == [i \in 1..n |-> lbuf[i]]

SplicePanic == spPc' = "panicked"

\* lines 418, 425-428: local.read gave Ok(n), n > 0.
SpLocalData(n, wrOk) ==
  /\ spPc = "loop" /\ ~localErr
  /\ n \in 1..Min(Len(localSrc), BufLen)
  /\ local_buf' = ReadInto(local_buf, localSrc, n)
  /\ localSrc' = Drop(localSrc, n)
  /\ localRead' = localRead \o FirstN(localSrc, n)
  /\ IF wrOk /\ ~remoteWrClosed
       THEN /\ remoteOut' = remoteOut \o LocalArmWritten(local_buf', remote_buf, n)
            /\ spPc' = LoopEnd(shutdown_local, shutdown_remote)
       ELSE SplicePanic /\ UNCHANGED remoteOut
  /\ UNCHANGED <<coordVars, odVars, remote_buf, shutdown_local, shutdown_remote, remoteSrc,
                 localErr, remoteErr, remoteRead, localOut, localWrClosed,
                 remoteWrClosed, localEofSeen, remoteEofSeen, localErrSeen,
                 remoteErrSeen>>

\* remote.shutdown().await.unwrap(); shutdown_remote = true; then line 459.
ShutdownRemote(shOk) ==
  IF shOk
    THEN /\ remoteWrClosed' = TRUE /\ shutdown_remote' = TRUE
         /\ spPc' = LoopEnd(shutdown_local, TRUE)
    ELSE SplicePanic /\ UNCHANGED <<remoteWrClosed, shutdown_remote>>

\* lines 420-424: local.read gave Ok(0).
SpLocalEof(shOk) ==
  /\ spPc = "loop" /\ ~localErr /\ localSrc = <<>>
  /\ localEofSeen' = TRUE
  /\ ShutdownRemote(shOk)
  /\ UNCHANGED <<coordVars, odVars, local_buf, remote_buf, shutdown_local, localSrc,
                 remoteSrc, localErr, remoteErr, localRead, remoteRead, localOut,
                 remoteOut, localWrClosed, remoteEofSeen, localErrSeen,
                 remoteErrSeen>>

\* lines 429-433: local.read gave Err; a failed socket keeps failing.
SpLocalErr(shOk) ==
  /\ spPc = "loop"
  /\ localErr' = TRUE /\ localErrSeen' = TRUE
  /\ ShutdownRemote(shOk)
  /\ UNCHANGED <<coordVars, odVars, local_buf, remote_buf, shutdown_local, localSrc,
                 remoteSrc, remoteErr, localRead, remoteRead, localOut, remoteOut,
                 localWrClosed, localEofSeen, remoteEofSeen, remoteErrSeen>>

\* lines 436, 443-446: remote.read gave Ok(n), n > 0.
SpRemoteData(n, wrOk) ==
  /\ spPc = "loop" /\ ~remoteErr
  /\ n \in 1..Min(Len(remoteSrc), BufLen)
  /\ remote_buf' = ReadInto(remote_buf, remoteSrc, n)
  /\ remoteSrc' = Drop(remoteSrc, n)
  /\ remoteRead' = remoteRead \o FirstN(remoteSrc, n)
  /\ IF wrOk /\ ~localWrClosed
       THEN /\ localOut' = localOut \o RemoteArmWritten(local_buf, remote_buf', n)
            /\ spPc' = LoopEnd(shutdown_local, shutdown_remote)
       ELSE SplicePanic /\ UNCHANGED localOut
  /\ UNCHANGED <<coordVars, odVars, local_buf, shutdown_local, shutdown_remote, localSrc,
                 localErr, remoteErr, localRead, remoteOut, localWrClosed,
                 remoteWrClosed, localEofSeen, remoteEofSeen, localErrSeen,
                 remoteErrSeen>>

\* local.shutdown().await.unwrap(); shutdown_local = true; then line 459.
ShutdownLocal(shOk) ==
  IF shOk
    THEN /\ localWrClosed' = TRUE /\ shutdown_local' = TRUE
         /\ spPc' = LoopEnd(TRUE, shutdown_remote)
    ELSE SplicePanic /\ UNCHANGED <<localWrClosed, shutdown_local>>

\* lines 438-442: remote.read gave Ok(0).
SpRemoteEof(shOk) ==
  /\ spPc = "loop" /\ ~remoteErr /\ remoteSrc = <<>>
  /\ remoteEofSeen' = TRUE
  /\ ShutdownLocal(shOk)
  /\ UNCHANGED <<coordVars, odVars, local_buf, remote_buf, shutdown_remote, localSrc,
                 remoteSrc, localErr, remoteErr, localRead, remoteRead, localOut,
                 remoteOut, remoteWrClosed, localEofSeen, localErrSeen,
                 remoteErrSeen>>

\* lines 447-451: remote.read gave Err; a failed socket keeps failing.
SpRemoteErr(shOk) ==
  /\ spPc = "loop"
  /\ remoteErr' = TRUE /\ remoteErrSeen' = TRUE
  /\ ShutdownLocal(shOk)
  /\ UNCHANGED <<coordVars, odVars, local_buf, remote_buf, shutdown_remote, localSrc,
                 remoteSrc, localErr, localRead, remoteRead, localOut, remoteOut,
                 remoteWrClosed, localEofSeen, remoteEofSeen, localErrSeen>>

\* ------------------------------------------ original-destination recovery
\* An unsigned integer of w bytes is held as its w base-256 digits, the most
\* significant first (a u32 does not fit a model integer).
Reverse(b) == [i \in 1..Len(b) |-> b[Len(b) + 1 - i]]
RECURSIVE Pow256(_)
Pow256(k) == IF k = 0 THEN 1 ELSE 256 * Pow256(k - 1)
\* digits of the number x < 256^w, and the number of the digits d
ToBeBytes(x, w) == [i \in 1..w |-> (x \div Pow256(w - i)) % 256]
RECURSIVE BeVal(_)
BeVal(d) == IF d = <<>> THEN 0 ELSE BeVal(SubSeq(d, 1, Len(d) - 1)) * 256 + d[Len(d)]

\* The native value of an integer field whose memory holds the bytes b, on a
\* host of byte order e: what reading a.sin_addr.s_addr or a.sin_port yields.
MemValue(b, e) == IF e = "BE" THEN b ELSE Reverse(b)

\* swap_bytes
SwapBytes(x) == Reverse(x)
\* u32::from_be
FromBe(x, e) == IF e = "LE" THEN SwapBytes(x) ELSE x
\* u16::to_be, u8::to_be
ToBe(x, e) == IF e = "LE" THEN SwapBytes(x) ELSE x

\* What getsockopt stores for the destination dst: the address and the port in
\* network byte order.
KernelSockaddr(query, dst, e) ==
  IF query = "OriginalDst"
    THEN [s_addr |-> MemValue(dst.ip, e), port |-> MemValue(ToBeBytes(dst.port, 2), e)]
    ELSE [s6_addr |-> dst.ip, port |-> MemValue(ToBeBytes(dst.port, 2), e)]

\* getsockopt answers a query of the socket's own family only: the option of
\* the other level is not known to the socket and yields an Err.
KernelAnswers(query, fam) == (query = "OriginalDst") <=> (fam = "V4")

\* Display of an address: its parts joined by a separator (the zero compression
\* of the IPv6 text form is left out; it does not depend on the byte order).
RECURSIVE Join(_, _)
Join(parts, sep) ==
  IF Len(parts) <= 1 THEN parts
  ELSE <<parts[1], sep>> \o Join(SubSeq(parts, 2, Len(parts)), sep)

\* Ipv4Addr::from(u32): the octets are the big-endian bytes of the number;
\* Ipv4Addr::to_string
Ipv4FromU32(x) == x
Ipv4ToString(octets) == Join(octets, ".")
\* Ipv6Addr::from([u8; 16]), Ipv6Addr::to_string
Ipv6FromBytes(b) == [k \in 1..8 |-> b[2 * k - 1] * 256 + b[2 * k]]
Ipv6ToString(segments) == Join(segments, ":")

\* A selection by the earlier draft kept in the comment of line 366.
OrigDstQuery_AlwaysV4(fam) == "OriginalDst"

\* lines 373, 377, 384: match addr { V4 => OriginalDst, V6 => Ip6tOriginalDst },
\* addr being the listen address of the accept loop.
OrigDstQuery(fam) == IF fam = "V4" THEN "OriginalDst" ELSE "Ip6tOriginalDst"

\* A port read without the byte swap.
PortToHost_NoSwap(p, e) == p

\* lines 380, 398: a.sin_port.to_be(), a.sin6_port.to_be()
PortToHost(p, e) == ToBe(p, e)

\* line 379: Ipv4Addr::from(u32::from_be(a.sin_addr.s_addr)).to_string()
V4Target(sa, e) == Ipv4ToString(Ipv4FromU32(FromBe(sa.s_addr, e)))

\* lines 388-396: the slice named u16 holds the first 8 elements of b as u8, and
\* each is replaced by its to_be().
SwapLoop(b, e) == [i \in 1..Len(b) |-> IF i <= 8 THEN ToBe(<<b[i]>>, e)[1] ELSE b[i]]

\* line 398: Ipv6Addr::from(b).to_string()
V6Target(sa, e) == Ipv6ToString(Ipv6FromBytes(SwapLoop(sa.s6_addr, e)))

\* lines 373-400: (addr, port) of the match on the listen address's family.
TargetOf(fam, sa, e) ==
  IF fam = "V4" THEN <<V4Target(sa, e), BeVal(PortToHost(sa.port, e))>>
                ELSE <<V6Target(sa, e), BeVal(PortToHost(sa.port, e))>>

\* lines 373-400: query the original destination and convert it; unwrap()
\* panics the forwarder's task when getsockopt fails.
OdRecover(ok) ==
  /\ odPc = "accepted"
  /\ odQuery' = OrigDstQuery(odListenFam)
  /\ IF ok /\ KernelAnswers(odQuery', odListenFam)
       THEN /\ odSockaddr' = KernelSockaddr(odQuery', odDst, odEndian)
            /\ odTarget' = TargetOf(odListenFam, odSockaddr', odEndian)
            /\ odPc' = "connect"
       ELSE odPc' = "panicked" /\ UNCHANGED <<odSockaddr, odTarget>>
  /\ UNCHANGED <<coordVars, spliceVars, odEndian, odListenFam, odDst>>

\* lines 405-411: Socks5Stream::connect(socks_addr, addr, port, remote_config)
\* .await.unwrap()
OdConnect(ok) ==
  /\ odPc = "connect"
  /\ odPc' = IF ok THEN "splice" ELSE "panicked"
  /\ UNCHANGED <<coordVars, spliceVars, odEndian, odListenFam, odDst, odQuery,
                 odSockaddr, odTarget>>

\* ---------------------------------------------------------- specifications
Next ==
  \/ \E planOk \in BOOLEAN, k \in 0..NSetup : StartFirewall(planOk, k)
  \/ RunSsh
  \/ MainSelectSsh
  \/ MainSend
  \/ \E k \in 0..NRestore : MainRestore(k)
  \/ \E ok \in BOOLEAN : SshSpawnChild(ok)
  \/ \E ok \in BOOLEAN : SshSetHandler(ok)
  \/ \E rc \in {"exit_success", "exit_failure"} : ChildExit(rc)
  \/ SshSelectRecv
  \/ \E ok \in BOOLEAN : SshKill(ok)
  \/ \E ok \in BOOLEAN : SshSelectWait(ok)
  \/ Interrupt
  \/ HandlerWake
  \/ \E ok \in BOOLEAN : RunClientBind(ok)
  \/ \E i \in DOMAIN accPc, ok \in BOOLEAN : Accept(i, ok)
  \/ \E c \in 1..MaxConns, ok \in BOOLEAN : FwdOrigDst(c, ok)
  \/ \E c \in 1..MaxConns, ok \in BOOLEAN : FwdConnect(c, ok)
  \/ \E c \in 1..MaxConns, ok \in BOOLEAN : FwdSpliceEnd(c, ok)

Spec == Init /\ [][Next]_vars

\* One forwarder in its splice loop, the rest of the program as it is while
\* connections are served: rules installed, child running, listener accepting.
InitSplice ==
  /\ listen = <<"V4">>
  /\ mainPc = "select" /\ mainResult = "none" /\ selected = "none"
  /\ setupExecuted = NSetup /\ setupResult = "Ok"
  /\ restoreRan = FALSE /\ restoreExecuted = 0 /\ restoreResult = "none"
  /\ sshPc = "select" /\ sshPath = "none" /\ sshResult = "none"
  /\ child = "running" /\ chan = 0
  /\ handlerInstalled = TRUE /\ hPc = "idle"
  /\ tokenEnqueued = FALSE /\ mainSent = FALSE
  /\ clientPc = "sleep" /\ bound = 1
  /\ accPc = [i \in 1..1 |-> "accepting"]
  /\ fwd = <<"splice">>
  /\ spPc = "loop"
  /\ local_buf = [i \in 1..BufLen |-> 0]
  /\ remote_buf = [i \in 1..BufLen |-> 0]
  /\ shutdown_local = FALSE /\ shutdown_remote = FALSE
  /\ localSrc \in SeqsUpTo(Bytes, MaxLen)
  /\ remoteSrc \in SeqsUpTo(Bytes, MaxLen)
  /\ localErr = FALSE /\ remoteErr = FALSE
  /\ localRead = <<>> /\ remoteRead = <<>>
  /\ localOut = <<>> /\ remoteOut = <<>>
  /\ localWrClosed = FALSE /\ remoteWrClosed = FALSE
  /\ localEofSeen = FALSE /\ remoteEofSeen = FALSE
  /\ localErrSeen = FALSE /\ remoteErrSeen = FALSE
  /\ OdIdle

NextSplice ==
  \/ \E n \in 1..BufLen, wrOk \in BOOLEAN : SpLocalData(n, wrOk)
  \/ \E shOk \in BOOLEAN : SpLocalEof(shOk)
  \/ \E shOk \in BOOLEAN : SpLocalErr(shOk)
  \/ \E n \in 1..BufLen, wrOk \in BOOLEAN : SpRemoteData(n, wrOk)
  \/ \E shOk \in BOOLEAN : SpRemoteEof(shOk)
  \/ \E shOk \in BOOLEAN : SpRemoteErr(shOk)

SpecSplice == InitSplice /\ [][NextSplice]_vars

\* Original destinations the kernel may have recorded.
OctetSamples == {0, 10, 255}
PortSamples == {0, 80, 443, 12345, 65535}
V4Dsts == [1..4 -> OctetSamples]
V6Dsts == { <<0, 0, 0, 0, 0, 0, 0, 0, 0, 0, 0, 0, 0, 0, 0, 1>>,
            <<32, 1, 13, 184, 0, 0, 0, 0, 0, 0, 0, 0, 0, 0, 0, 1>>,
            <<0, 0, 0, 0, 0, 0, 0, 0, 0, 0, 255, 255, 10, 1, 2, 3>>,
            <<1, 2, 3, 4, 5, 6, 7, 8, 9, 10, 11, 12, 13, 14, 15, 16>> }

\* One forwarder just accepted on a listen address of either family, on a host
\* of either byte order; the rest of the program as it is while connections
\* are served.
InitOrigDst ==
  /\ odListenFam \in {"V4", "V6"}
  /\ odEndian \in {"LE", "BE"}
  /\ odDst \in [ip : IF odListenFam = "V4" THEN V4Dsts ELSE V6Dsts, port : PortSamples]
  /\ odPc = "accepted" /\ odQuery = "none" /\ odSockaddr = <<>> /\ odTarget = <<>>
  /\ listen = <<odListenFam>>
  /\ mainPc = "select" /\ mainResult = "none" /\ selected = "none"
  /\ setupExecuted = NSetup /\ setupResult = "Ok"
  /\ restoreRan = FALSE /\ restoreExecuted = 0 /\ restoreResult = "none"
  /\ sshPc = "select" /\ sshPath = "none" /\ sshResult = "none"
  /\ child = "running" /\ chan = 0
  /\ handlerInstalled = TRUE /\ hPc = "idle"
  /\ tokenEnqueued = FALSE /\ mainSent = FALSE
  /\ clientPc = "sleep" /\ bound = 1
  /\ accPc = [i \in 1..1 |-> "accepting"]
  /\ fwd = <<"origdst">>
  /\ SpliceIdle

NextOrigDst ==
  \/ \E ok \in BOOLEAN : OdRecover(ok)
  \/ \E ok \in BOOLEAN : OdConnect(ok)

SpecOrigDst == InitOrigDst /\ [][NextOrigDst]_vars

\* ------------------------------------------------------------------ claims
ChildTerminated == child \in {"killed", "exit_success", "exit_failure"}
Splicing == {c \in DOMAIN fwd : fwd[c] = "splice"}

\* C1: once the setup sequence has run to completion, the restore sequence has
\* been run by the time main returns, whatever the exit path.
C1_RestoreOnEveryExit ==
  (mainPc = "returned" /\ setupResult = "Ok") => restoreRan

\* C2: when the setup sequence fails after some of its commands were executed,
\* the restore sequence is run before main returns, and main returns the setup
\* error.
C2_RestoreAfterPartialSetup ==
  (mainPc = "returned" /\ setupResult = "Err" /\ setupExecuted > 0)
    => (restoreRan /\ mainResult = "CommandError")

\* C3: a Shutdown token enqueued by the interrupt handler while the supervisor
\* task runs leads to the child being terminated and the restore sequence being
\* run; stated on the final state: main does not return with a token enqueued
\* and the child alive or the restore sequence not run.
C3_TokenLeadsToKillAndRestore ==
  (mainPc = "returned" /\ tokenEnqueued) => (ChildTerminated /\ restoreRan)

\* C4: as long as the forwarder runs, the bytes written to the remote socket are
\* the bytes read from the local socket, and the bytes written to the local
\* socket are the bytes read from the remote socket, in order.
C4_Lossless ==
  spPc \in {"loop", "done"} => (remoteOut = localRead /\ localOut = remoteRead)

\* C5: the interrupt handler never panics, in any state of the control channel.
C5_HandlerNeverPanics == hPc # "panicked"

\* C6: when main returns because the listener pool failed while a tunnel child
\* exists, main has sent a Shutdown and the child is no longer running.
C6_PoolErrorKillsTunnel ==
  (mainPc = "returned" /\ selected = "client" /\ child # "none")
    => (mainSent /\ child # "running")

\* C7: the supervisor's wait arm reports Ok for a child that exited with
\* success and an error for one that exited non-zero; main then returns Ok when
\* the restore sequence succeeds, resp. returns an error.
C7_ChildExitReported ==
  /\ sshPath = "exit_success" => sshResult = "Ok"
  /\ sshPath = "exit_failure" => sshResult = "Err"
  /\ (mainPc = "returned" /\ sshPath = "exit_success" /\ restoreResult = "Ok")
       => mainResult = "Ok"
  /\ (mainPc = "returned" /\ sshPath = "exit_failure")
       => mainResult \notin {"none", "Ok"}

C7_Witness ==
  /\ mainPc = "returned" /\ sshPath = "exit_success" /\ ~tokenEnqueued
  /\ restoreResult = "Ok" /\ mainResult = "Ok"

\* C8 as stated: a supervisor that received a Shutdown token reports normal
\* completion, whatever became of the child.
C8_RecvAlwaysOk ==
  (sshPc = "done" /\ sshPath \in {"killed", "kill_failed"}) => sshResult = "Ok"

\* C8 amended: a supervisor that received a Shutdown token reports normal
\* completion when child.kill() succeeds, whatever the child's exit status, and
\* an error when child.kill() fails; main returns Ok after a successful kill
\* when the restore sequence succeeds, and the error after a failed kill.
C8_KillReported ==
  /\ sshPath = "killed" => (sshResult = "Ok" /\ ChildTerminated)
  /\ sshPath = "kill_failed" => sshResult = "Err"
  /\ (mainPc = "returned" /\ sshPath = "killed" /\ restoreResult = "Ok")
       => mainResult = "Ok"
  /\ (mainPc = "returned" /\ sshPath = "kill_failed")
       => mainResult = "std::io::Error"

C8_Witness ==
  /\ mainPc = "returned" /\ sshPath = "killed" /\ tokenEnqueued
  /\ child = "exit_failure"
  /\ restoreResult = "Ok" /\ mainResult = "Ok"
  /\ Cardinality(Splicing) = 2

NoIoError == spPc \in {"loop", "done"} /\ ~localErrSeen /\ ~remoteErrSeen

\* C9: in a run without I/O errors, an EOF read in one direction closes the
\* write half of the opposite socket after every byte read in that direction was
\* written, the other direction's bytes keep being delivered, and the loop ends
\* only after both EOFs.
C9_HalfClose ==
  NoIoError =>
    /\ localEofSeen => (remoteWrClosed /\ remoteOut = localRead)
    /\ remoteEofSeen => (localWrClosed /\ localOut = remoteRead)
    /\ localEofSeen => localOut = remoteRead
    /\ remoteEofSeen => remoteOut = localRead
    /\ spPc = "done" => (localEofSeen /\ remoteEofSeen)

\* C10: once a read on either socket has returned an error, the splice loop is
\* no longer running.
C10_ReadErrorEndsSplice ==
  (localErrSeen \/ remoteErrSeen) => spPc # "loop"

\* C11: a step in which a forwarder fails (the panic of an unwrap() on the
\* original-destination lookup, the SOCKS5 connect, or a write or shutdown of
\* the splice) changes that forwarder only: every accept loop, every other
\* forwarder, the listener pool future and main are left as they were.
C11_ForwarderFailureIsLocal ==
  [][\A c \in DOMAIN fwd :
       (fwd[c] # "panicked" /\ fwd'[c] = "panicked")
         => /\ UNCHANGED <<accPc, clientPc, bound, mainPc, mainResult, selected>>
            /\ \A d \in DOMAIN fwd \ {c} : fwd'[d] = fwd[d]]_vars

C11_Witness ==
  /\ \E c \in DOMAIN fwd : fwd[c] = "panicked"
  /\ \E d \in DOMAIN fwd : fwd[d] = "splice"
  /\ \A i \in DOMAIN accPc : accPc[i] = "accepting"
  /\ clientPc = "sleep" /\ mainPc = "select"

AcceptFailed == \E i \in DOMAIN accPc : accPc[i] = "panicked"

\* C12: an accept error that ends an accept loop is surfaced to main: the
\* listener pool future completes with the error, so it is never parked in its
\* final sleep loop (which it does not leave) with an accept loop dead.
C12_AcceptDeathSurfaces ==
  AcceptFailed => clientPc # "sleep"

\* C13: an accept loop keeps accepting after an accept error: every bound
\* listen address has its accept loop accepting.
C13_AcceptLoopSurvivesError ==
  \A i \in DOMAIN accPc : i <= bound => accPc[i] = "accepting"

\* The text form of the address ip of family fam.
IpString(fam, ip) ==
  IF fam = "V4" THEN Ipv4ToString(ip) ELSE Ipv6ToString(Ipv6FromBytes(ip))

\* C14: the (addr, port) handed to the SOCKS5 connect is the text form of the
\* kernel-recorded original destination address and its port, on a host of
\* either byte order.
C14_TargetIsOriginalDst ==
  odTarget # <<>> => odTarget = <<IpString(odListenFam, odDst.ip), odDst.port>>

C14_Witness ==
  /\ odPc = "splice" /\ odEndian = "LE" /\ odListenFam = "V4"
  /\ odDst = [ip |-> <<10, 0, 0, 255>>, port |-> 80]
  /\ odTarget = <<(<<10, ".", 0, ".", 0, ".", 255>>), 80>>

\* C18: the query that recovers the original destination is the one of the
\* family of the listen address the connection was accepted on, whatever the
\* recovered address looks like.
C18_QueryByListenerFamily ==
  odQuery # "none" =>
    /\ odListenFam = "V6" => odQuery = "Ip6tOriginalDst"
    /\ odListenFam = "V4" => odQuery = "OriginalDst"

\* a v6 listener whose recovered destination is the v4-mapped ::ffff:10.1.2.3
C18_Witness ==
  /\ odPc = "connect" /\ odListenFam = "V6" /\ odQuery = "Ip6tOriginalDst"
  /\ SubSeq(odDst.ip, 1, 12) = <<0, 0, 0, 0, 0, 0, 0, 0, 0, 0, 255, 255>>
  /\ odTarget # <<>>

\* C15: the interrupt handler is installed before the firewall setup commands
\* run: whenever a setup command has been executed, the handler is installed.
C15_HandlerBeforeSetup == setupExecuted > 0 => handlerInstalled

\* C16: no tunnel child and no bound listener before the setup sequence has
\* completed successfully, and no bound listener before the tunnel child
\* process has been spawned.
C16_StartupOrdered ==
  /\ (child # "none" \/ bound > 0) => setupResult = "Ok"
  /\ bound > 0 => child # "none"

\* C17: when main is about to run the restore commands, no forwarder is
\* splicing and no accept loop is accepting.
C17_RestoreAfterSettled ==
  mainPc = "restore" =>
    /\ Splicing = {}
    /\ \A i \in DOMAIN accPc : accPc[i] # "accepting"

\* C19: whenever main is at its send after the select!, the channel has a free
\* slot or its receiver has been dropped, so the send completes.
C19_SendNeverBlocks == mainPc = "send" => (chan = 0 \/ ~RxAlive)

\* the handler's token fills the channel while main is at the send
C19_Witness == mainPc = "send" /\ tokenEnqueued /\ chan = 1

\* C20: run_client completes with an error only, and main reaches the restore
\* sequence exactly when the select! completed with the supervisor task's
\* Ok(()), which is a successful child exit or a kill after a token.
C20_RestoreIffSupervisorOk ==
  /\ clientPc \in {"not_created", "bind", "sleep", "err"}
  /\ selected = "client" =>
       clientPc = "err" /\ mainPc = "returned" /\ mainResult # "Ok" /\ ~restoreRan
  /\ (mainPc \in {"send", "restore"} \/ restoreRan) =>
       /\ selected = "ssh" /\ sshResult = "Ok"
       /\ sshPath \in {"exit_success", "killed"}
  /\ (selected = "ssh" /\ sshResult = "Ok") =>
       (mainPc \in {"send", "restore"} \/ restoreRan)
  /\ (selected = "ssh" /\ sshResult # "Ok") => (mainPc = "returned" /\ ~restoreRan)

C20_Witness ==
  /\ mainPc = "returned" /\ restoreRan /\ selected = "ssh" /\ sshPath = "killed"
  /\ clientPc = "sleep"

====
